---- MODULE Spec2Model ----
(***************************************************************************)
(* Model of mpd_client's state_changes.rs: the Subsystem classifier        *)
(* (from_raw_string / as_str), the StateChangeError type (From, Display,   *)
(* source) and the StateChanges stream, whose poll_next delegates to the   *)
(* receiving end of an unbounded mpsc channel.                             *)
(***************************************************************************)
EXTENDS Integers, Sequences, FiniteSets, TLC

VARIABLES
    \* ---- StateChanges (the stream and the channel behind it) ----
    queue,          \* messages buffered in the channel, oldest first
    txOpen,         \* TRUE while the producer still holds the sender
    rxWaker,        \* TRUE while a waker is registered with the channel
    consumer,       \* the task polling the stream: "running", "suspended"
                    \*   (parked on the channel's waker) or "woken" (resumed
                    \*   by the channel, about to poll again)
    budget,         \* TRUE while the polling task has cooperative budget left
                    \*   (without it poll_recv fails spuriously with Pending)
    lastPoll,       \* what the latest poll_next returned
    sent,           \* history: every element the producer enqueued, in order
    yielded,        \* history: every element poll_next yielded, in order
    ends,           \* history: how many polls yielded None (counted up to MaxEnds)
    owed,           \* history: head of the queue seen by the latest poll that
                    \*          returned no element (empty if there was none)
    pendingAtClose, \* history: number of buffered elements when the sender closed
    \* ---- Subsystem ----
    raw,            \* the raw token handed to from_raw_string (<<>> if none)
    subsystem,      \* the Subsystem value at hand (<<>> if none yet)
    rendered,       \* as_str of that value (<<>> if not taken yet)
    reparsed,       \* from_raw_string of the rendered token (<<>> if not taken)
    \* ---- StateChangeError ----
    origin,         \* the underlying error being converted (<<>> if none)
    err,            \* the StateChangeError made from it (<<>> if none yet)
    shown,          \* its Display output (<<>> if not formatted yet)
    cause           \* <<source()>> once source() was called, <<>> before

streamVars == <<queue, txOpen, rxWaker, consumer, budget, lastPoll, sent,
                yielded, ends, owed, pendingAtClose>>
subsystemVars == <<raw, subsystem, rendered, reparsed>>
errorVars == <<origin, err, shown, cause>>
vars == <<streamVars, subsystemVars, errorVars>>

\* Option<T>: None is the empty sequence, Some(x) the one-element sequence.
None == <<>>
Some(x) == <<x>>

\* ---------------------------------------------------------------------------
\* Bounds of the model
\* ---------------------------------------------------------------------------
\* The producer enqueues at most MaxPush elements.
MaxPush == 4
\* Error frames carry a code in 0..MaxCode.
MaxCode == 12
\* End-of-sequence results are counted up to MaxEnds.
MaxEnds == 2

\* ---------------------------------------------------------------------------
\* Subsystem
\* ---------------------------------------------------------------------------
Database == [variant |-> "Database"]
Message == [variant |-> "Message"]
Mixer == [variant |-> "Mixer"]
Options == [variant |-> "Options"]
Output == [variant |-> "Output"]
Partition == [variant |-> "Partition"]
Player == [variant |-> "Player"]
Queue == [variant |-> "Queue"]
Sticker == [variant |-> "Sticker"]
StoredPlaylist == [variant |-> "StoredPlaylist"]
Subscription == [variant |-> "Subscription"]
Update == [variant |-> "Update"]
Neighbor == [variant |-> "Neighbor"]
Mount == [variant |-> "Mount"]
Other(r) == [variant |-> "Other", raw |-> r]

\* Mutant of from_raw_string: the queue is matched under its semantic name.
from_raw_string_queue(s) ==
    CASE s = "database" -> Database
      [] s = "message" -> Message
      [] s = "mixer" -> Mixer
      [] s = "options" -> Options
      [] s = "output" -> Output
      [] s = "partition" -> Partition
      [] s = "player" -> Player
      [] s = "queue" -> Queue
      [] s = "sticker" -> Sticker
      [] s = "stored_playlist" -> StoredPlaylist
      [] s = "subscription" -> Subscription
      [] s = "update" -> Update
      [] s = "neighbor" -> Neighbor
      [] s = "mount" -> Mount
      [] OTHER -> Other(s)

\* ASCII lower-casing of one character, and of a string.
to_ascii_lowercase_char(c) ==
    IF \E i \in 1..26 : SubSeq("ABCDEFGHIJKLMNOPQRSTUVWXYZ", i, i) = c
    THEN LET i == CHOOSE j \in 1..26 : SubSeq("ABCDEFGHIJKLMNOPQRSTUVWXYZ", j, j) = c
         IN SubSeq("abcdefghijklmnopqrstuvwxyz", i, i)
    ELSE c

RECURSIVE to_ascii_lowercase(_)
to_ascii_lowercase(s) ==
    IF Len(s) = 0 THEN ""
    ELSE to_ascii_lowercase_char(SubSeq(s, 1, 1))
            \o to_ascii_lowercase(SubSeq(s, 2, Len(s)))

\* Mutant of from_raw_string: the token is matched ignoring case.
from_raw_string_nocase(s) ==
    LET t == to_ascii_lowercase(s) IN
    CASE t = "database" -> Database
      [] t = "message" -> Message
      [] t = "mixer" -> Mixer
      [] t = "options" -> Options
      [] t = "output" -> Output
      [] t = "partition" -> Partition
      [] t = "player" -> Player
      [] t = "playlist" -> Queue
      [] t = "sticker" -> Sticker
      [] t = "stored_playlist" -> StoredPlaylist
      [] t = "subscription" -> Subscription
      [] t = "update" -> Update
      [] t = "neighbor" -> Neighbor
      [] t = "mount" -> Mount
      [] OTHER -> Other(s)

from_raw_string(s) ==
    CASE s = "database" -> Database
      [] s = "message" -> Message
      [] s = "mixer" -> Mixer
      [] s = "options" -> Options
      [] s = "output" -> Output
      [] s = "partition" -> Partition
      [] s = "player" -> Player
      [] s = "playlist" -> Queue
      [] s = "sticker" -> Sticker
      [] s = "stored_playlist" -> StoredPlaylist
      [] s = "subscription" -> Subscription
      [] s = "update" -> Update
      [] s = "neighbor" -> Neighbor
      [] s = "mount" -> Mount
      [] OTHER -> Other(s)

as_str(v) ==
    CASE v.variant = "Database" -> "database"
      [] v.variant = "Message" -> "message"
      [] v.variant = "Mixer" -> "mixer"
      [] v.variant = "Options" -> "options"
      [] v.variant = "Output" -> "output"
      [] v.variant = "Partition" -> "partition"
      [] v.variant = "Player" -> "player"
      [] v.variant = "Queue" -> "playlist"
      [] v.variant = "Sticker" -> "sticker"
      [] v.variant = "StoredPlaylist" -> "stored_playlist"
      [] v.variant = "Subscription" -> "subscription"
      [] v.variant = "Update" -> "update"
      [] v.variant = "Neighbor" -> "neighbor"
      [] v.variant = "Mount" -> "mount"
      [] OTHER -> v.raw

\* The raw tokens handed to the classifier: the protocol's vocabulary, and
\* strings that differ from it in case, surrounding whitespace, by being a
\* proper substring or superstring, the semantic names, and the empty string.
RawInputs ==
    { "database", "message", "mixer", "options", "output", "partition",
      "player", "playlist", "sticker", "stored_playlist", "subscription",
      "update", "neighbor", "mount",
      "", "Player", "PLAYLIST", " player", "player ", "mixer\n", "play",
      "playlists", "stored", "stored playlist", "storedplaylist", "queue",
      "Queue", "mounts", "neighbour", "other", "x" }

NamedVariants ==
    { Database, Message, Mixer, Options, Output, Partition, Player, Queue,
      Sticker, StoredPlaylist, Subscription, Update, Neighbor, Mount }

\* Every Subsystem value application code can hold (the enum is public).
Subsystems == NamedVariants \cup { Other(s) : s \in RawInputs }

InitSubsystemVars ==
    /\ raw = None
    /\ subsystem = None
    /\ rendered = None
    /\ reparsed = None

\* The idle loop hands a raw token to from_raw_string.
Classify ==
    /\ raw # None
    /\ subsystem = None
    /\ subsystem' = Some(from_raw_string(raw[1]))
    /\ UNCHANGED <<raw, rendered, reparsed, streamVars, errorVars>>

\* The application asks a Subsystem for its protocol name.
Render ==
    /\ subsystem # None
    /\ rendered = None
    /\ rendered' = Some(as_str(subsystem[1]))
    /\ UNCHANGED <<raw, subsystem, reparsed, streamVars, errorVars>>

\* The rendered name is classified again.
Reclassify ==
    /\ rendered # None
    /\ reparsed = None
    /\ reparsed' = Some(from_raw_string(rendered[1]))
    /\ UNCHANGED <<raw, subsystem, rendered, streamVars, errorVars>>

\* ---------------------------------------------------------------------------
\* StateChangeError
\* ---------------------------------------------------------------------------
\* mpd_protocol::MpdProtocolError values (transport and framing failures).
ProtocolErrors ==
    { [type |-> "MpdProtocolError", kind |-> "Io", detail |-> "connection reset"],
      [type |-> "MpdProtocolError", kind |-> "Io", detail |-> "unexpected eof"],
      [type |-> "MpdProtocolError", kind |-> "InvalidMessage", detail |-> ""] }

Messages == { "", "bad command", "unknown command \"foo\"", "5" }

\* mpd_protocol::response::Error values (error frames sent by the server).
ErrorFrames ==
    { [type |-> "Error", code |-> c, command_index |-> 0,
       current_command |-> k, message |-> m] :
        c \in 0..MaxCode, k \in {"idle", "noidle"}, m \in Messages }

Protocol(e) == [variant |-> "Protocol", inner |-> e]
ErrorMessage(r) == [variant |-> "ErrorMessage", inner |-> r]

\* Mutant of FromError: an error frame is filed as a protocol error.
FromError_protocol(r) == Protocol(r)

\* impl From<Error> for StateChangeError
FromError(r) == ErrorMessage(r)

\* impl From<MpdProtocolError> for StateChangeError
FromMpdProtocolError(e) == Protocol(e)

\* error::Error::source
source(e) ==
    IF e.variant = "Protocol" THEN Some(e.inner) ELSE None

\* Display of an unsigned integer: its decimal digits, most significant first.
RECURSIVE fmt_u64(_)
fmt_u64(n) ==
    IF n < 10 THEN SubSeq("0123456789", n + 1, n + 1)
    ELSE fmt_u64(n \div 10) \o SubSeq("0123456789", (n % 10) + 1, (n % 10) + 1)

\* Mutant of fmt: a protocol error renders its cause inline.
fmt_cause(e) ==
    IF e.variant = "Protocol" THEN "protocol error: " \o e.inner.detail
    ELSE "message contained an error frame [code " \o fmt_u64(e.inner.code)
            \o "]: " \o e.inner.message

\* impl fmt::Display for StateChangeError
fmt(e) ==
    IF e.variant = "Protocol" THEN "protocol error"
    ELSE "message contained an error frame [code " \o fmt_u64(e.inner.code)
            \o "]: " \o e.inner.message

InitErrorVars ==
    /\ origin = None
    /\ err = None
    /\ shown = None
    /\ cause = None

\* The producer converts a transport/protocol failure (e.into()).
ConvertProtocolError ==
    /\ origin # None
    /\ origin[1].type = "MpdProtocolError"
    /\ err = None
    /\ err' = Some(FromMpdProtocolError(origin[1]))
    /\ UNCHANGED <<origin, shown, cause, streamVars, subsystemVars>>

\* The producer converts an error frame (r.into()).
ConvertErrorFrame ==
    /\ origin # None
    /\ origin[1].type = "Error"
    /\ err = None
    /\ err' = Some(FromError(origin[1]))
    /\ UNCHANGED <<origin, shown, cause, streamVars, subsystemVars>>

\* The application formats the error.
Display ==
    /\ err # None
    /\ shown = None
    /\ shown' = Some(fmt(err[1]))
    /\ UNCHANGED <<origin, err, cause, streamVars, subsystemVars>>

\* The application asks the error for its cause.
Source ==
    /\ err # None
    /\ cause = None
    /\ cause' = Some(source(err[1]))
    /\ UNCHANGED <<origin, err, shown, streamVars, subsystemVars>>

\* ---------------------------------------------------------------------------
\* StateChanges
\* ---------------------------------------------------------------------------
\* Result<Subsystem, StateChangeError>
Ok(x) == [tag |-> "Ok", val |-> x]
Err(e) == [tag |-> "Err", val |-> e]

\* Poll<Option<Item>>
Ready(opt) == [poll |-> "Ready", item |-> opt]
Pending == [poll |-> "Pending", item |-> None]
NotPolled == [poll |-> "NotPolled", item |-> None]

\* What the idle loop reports while the stream is observed.
StreamRaws == { "player", "mixer" }
StreamProtocolErrors ==
    { [type |-> "MpdProtocolError", kind |-> "Io", detail |-> "connection reset"] }
StreamErrorFrames ==
    { [type |-> "Error", code |-> 5, command_index |-> 0,
       current_command |-> "idle", message |-> "bad command"] }

InitStreamVars ==
    /\ queue = <<>>
    /\ txOpen = TRUE
    /\ rxWaker = FALSE
    /\ consumer = "running"
    /\ budget = TRUE
    /\ lastPoll = NotPolled
    /\ sent = <<>>
    /\ yielded = <<>>
    /\ ends = 0
    /\ owed = None
    /\ pendingAtClose = 0

\* The channel wakes the task whose waker is registered, if any.
Wake ==
    /\ consumer' = IF rxWaker /\ consumer = "suspended" THEN "woken" ELSE consumer
    /\ rxWaker' = FALSE

\* The producer end: UnboundedSender::send of one element.
Send(item) ==
    /\ txOpen
    /\ Len(sent) < MaxPush
    /\ queue' = Append(queue, item)
    /\ sent' = Append(sent, item)
    /\ Wake
    /\ UNCHANGED <<txOpen, budget, lastPoll, yielded, ends, owed, pendingAtClose>>
    /\ UNCHANGED <<subsystemVars, errorVars>>

\* The idle loop observed a change of one subsystem.
ProducerNotify == \E r \in StreamRaws : Send(Ok(from_raw_string(r)))

\* The idle loop hit a transport/protocol failure.
ProducerProtocolError ==
    \E e \in StreamProtocolErrors : Send(Err(FromMpdProtocolError(e)))

\* The idle loop received an error frame.
ProducerErrorFrame == \E r \in StreamErrorFrames : Send(Err(FromError(r)))

\* The producer drops the sender: the connection closed.
Close ==
    /\ txOpen
    /\ txOpen' = FALSE
    /\ pendingAtClose' = Len(queue)
    /\ Wake
    /\ UNCHANGED <<queue, budget, lastPoll, sent, yielded, ends, owed>>
    /\ UNCHANGED <<subsystemVars, errorVars>>

\* The messages of q behind its leading run of copies of x.
RECURSIVE SkipCopies(_, _)
SkipCopies(q, x) ==
    IF q # <<>> /\ Head(q) = x THEN SkipCopies(Tail(q), x) ELSE q

\* Mutant of poll_recv: repeated notifications of one subsystem are coalesced.
poll_recv_coalesce(q, open, hasBudget) ==
    IF ~hasBudget THEN [ret |-> Pending, rest |-> q, parked |-> FALSE]
    ELSE IF q # <<>> THEN [ret |-> Ready(Some(Head(q))),
                           rest |-> SkipCopies(q, Head(q)), parked |-> FALSE]
    ELSE IF ~open THEN [ret |-> Ready(None), rest |-> q, parked |-> FALSE]
    ELSE [ret |-> Pending, rest |-> q, parked |-> TRUE]

\* Mutant of poll_recv: an empty channel is reported as the end.
poll_recv_empty_is_end(q, open, hasBudget) ==
    IF ~hasBudget THEN [ret |-> Pending, rest |-> q, parked |-> FALSE]
    ELSE IF q # <<>> THEN [ret |-> Ready(Some(Head(q))), rest |-> Tail(q), parked |-> FALSE]
    ELSE [ret |-> Ready(None), rest |-> q, parked |-> FALSE]

\* Mutant of poll_recv: an error element discards what is queued behind it.
poll_recv_err_terminates(q, open, hasBudget) ==
    IF ~hasBudget THEN [ret |-> Pending, rest |-> q, parked |-> FALSE]
    ELSE IF q # <<>> THEN [ret |-> Ready(Some(Head(q))),
                           rest |-> IF Head(q).tag = "Err" THEN <<>> ELSE Tail(q),
                           parked |-> FALSE]
    ELSE IF ~open THEN [ret |-> Ready(None), rest |-> q, parked |-> FALSE]
    ELSE [ret |-> Pending, rest |-> q, parked |-> TRUE]

\* Mutant of poll_recv: closure is reported before the buffer is drained.
poll_recv_closed_first(q, open, hasBudget) ==
    IF ~hasBudget THEN [ret |-> Pending, rest |-> q, parked |-> FALSE]
    ELSE IF ~open THEN [ret |-> Ready(None), rest |-> <<>>, parked |-> FALSE]
    ELSE IF q # <<>> THEN [ret |-> Ready(Some(Head(q))), rest |-> Tail(q), parked |-> FALSE]
    ELSE [ret |-> Pending, rest |-> q, parked |-> TRUE]

\* Mutant of poll_recv: the message is taken out before the budget is checked.
poll_recv_pop_first(q, open, hasBudget) ==
    IF ~hasBudget THEN [ret |-> Pending,
                        rest |-> IF q # <<>> THEN Tail(q) ELSE q, parked |-> FALSE]
    ELSE IF q # <<>> THEN [ret |-> Ready(Some(Head(q))), rest |-> Tail(q), parked |-> FALSE]
    ELSE IF ~open THEN [ret |-> Ready(None), rest |-> q, parked |-> FALSE]
    ELSE [ret |-> Pending, rest |-> q, parked |-> TRUE]

\* UnboundedReceiver::poll_recv(cx), to which poll_next delegates, on a channel
\* holding q whose sender is open or dropped, called by a task that has
\* cooperative budget left or not.  ret is what it returns, rest what it
\* leaves in the channel, parked whether cx's waker now waits on the channel.
\* Its contract: Ready(Some(m)) with the oldest message m; Ready(None) once the
\* channel is closed and every message sent before was received; Pending when
\* no message is available and the channel is not closed (the waker is woken
\* by the next send or by closure), or on a spurious failure: a task that has
\* used up its budget gets Pending before the channel is looked at, and is
\* woken at once.
poll_recv(q, open, hasBudget) ==
    IF ~hasBudget THEN [ret |-> Pending, rest |-> q, parked |-> FALSE]
    ELSE IF q # <<>> THEN [ret |-> Ready(Some(Head(q))), rest |-> Tail(q), parked |-> FALSE]
    ELSE IF ~open THEN [ret |-> Ready(None), rest |-> q, parked |-> FALSE]
    ELSE [ret |-> Pending, rest |-> q, parked |-> TRUE]

\* Mutant of poll_next: the task parks without its waker reaching the channel.
poll_next_no_waker ==
    /\ consumer \in {"running", "woken"}
    /\ LET r == poll_recv(queue, txOpen, budget) IN
        /\ lastPoll' = r.ret
        /\ queue' = r.rest
        /\ consumer' = IF r.parked THEN "suspended" ELSE "running"
        /\ rxWaker' = rxWaker
        /\ yielded' = IF r.ret.item # None THEN Append(yielded, r.ret.item[1])
                      ELSE yielded
        /\ ends' = IF r.ret = Ready(None) /\ ends < MaxEnds THEN ends + 1 ELSE ends
        /\ owed' = IF r.ret = Pending /\ queue # <<>> THEN Some(Head(queue))
                   ELSE None
        /\ IF ~budget THEN budget' = TRUE
           ELSE IF r.ret.poll = "Ready" THEN budget' \in BOOLEAN
           ELSE budget' = budget
    /\ UNCHANGED <<txOpen, sent, pendingAtClose, subsystemVars, errorVars>>

\* Stream::poll_next for StateChanges: self.rx.poll_recv(cx).
poll_next ==
    /\ consumer \in {"running", "woken"}
    /\ LET r == poll_recv(queue, txOpen, budget) IN
        /\ lastPoll' = r.ret
        /\ queue' = r.rest
        /\ consumer' = IF r.parked THEN "suspended" ELSE "running"
        /\ rxWaker' = (rxWaker \/ r.parked)
        /\ yielded' = IF r.ret.item # None THEN Append(yielded, r.ret.item[1])
                      ELSE yielded
        /\ ends' = IF r.ret = Ready(None) /\ ends < MaxEnds THEN ends + 1 ELSE ends
        /\ owed' = IF r.ret = Pending /\ queue # <<>> THEN Some(Head(queue))
                   ELSE None
        /\ IF ~budget THEN budget' = TRUE
           ELSE IF r.ret.poll = "Ready" THEN budget' \in BOOLEAN
           ELSE budget' = budget
    /\ UNCHANGED <<txOpen, sent, pendingAtClose, subsystemVars, errorVars>>

\* The caller gives up a suspended wait (a timeout around next().await fired);
\* the waker it registered stays with the channel.
Abandon ==
    /\ consumer = "suspended"
    /\ consumer' = "running"
    /\ UNCHANGED <<queue, txOpen, rxWaker, budget, lastPoll, sent, yielded,
                   ends, owed, pendingAtClose, subsystemVars, errorVars>>

\* ---------------------------------------------------------------------------
\* Specifications
\* ---------------------------------------------------------------------------
Init ==
    /\ InitStreamVars
    /\ InitSubsystemVars
    /\ InitErrorVars

Next ==
    \/ ProducerNotify
    \/ ProducerProtocolError
    \/ ProducerErrorFrame
    \/ Close
    \/ poll_next
    \/ Abandon

\* The stream, its producer and its consumer.
Spec == Init /\ [][Next]_vars

\* The same with a consumer that keeps polling: a task that is runnable (never
\* parked, or woken by the channel) is scheduled again and polls the stream.
\* A poll that fails for lack of budget restores the budget, so weak fairness
\* of poll_next is enough.
FairSpec == Spec /\ WF_vars(poll_next)

InitSubsystem ==
    /\ InitStreamVars
    /\ InitErrorVars
    /\ rendered = None
    /\ reparsed = None
    /\ \/ raw \in { Some(s) : s \in RawInputs } /\ subsystem = None
       \/ raw = None /\ subsystem \in { Some(v) : v \in Subsystems }

NextSubsystem ==
    \/ Classify
    \/ Render
    \/ Reclassify

\* The classifier applied to every raw token, and as_str to every value.
SpecSubsystem == InitSubsystem /\ [][NextSubsystem]_vars

InitError ==
    /\ InitStreamVars
    /\ InitSubsystemVars
    /\ origin \in { Some(o) : o \in ProtocolErrors \cup ErrorFrames }
    /\ err = None
    /\ shown = None
    /\ cause = None

NextError ==
    \/ ConvertProtocolError
    \/ ConvertErrorFrame
    \/ Display
    \/ Source

\* Conversion, formatting and cause of every underlying error.
SpecError == InitError /\ [][NextError]_vars

\* ---------------------------------------------------------------------------
\* Properties of Subsystem (checked under SpecSubsystem)
\* ---------------------------------------------------------------------------
\* The protocol's vocabulary, as the mapping table lists it.
RecognizedTokens ==
    { "database", "message", "mixer", "options", "output", "partition",
      "player", "playlist", "sticker", "stored_playlist", "subscription",
      "update", "neighbor", "mount" }

\* t occurs in s as a contiguous substring.
Contains(s, t) ==
    \E i \in 1..(Len(s) - Len(t) + 1) : SubSeq(s, i, i + Len(t) - 1) = t

\* C4: from_raw_string and as_str are mutual inverses on the recognized
\* vocabulary: a recognized token is classified as a named variant and renders
\* back to itself; a named variant renders to a recognized token and that token
\* classifies back to the variant; "playlist" is the variant Queue and Queue
\* renders "playlist".
C4_MutualInverses ==
    /\ (raw # None /\ raw[1] \in RecognizedTokens /\ subsystem # None)
          => subsystem[1] \in NamedVariants
    /\ (raw # None /\ raw[1] \in RecognizedTokens /\ rendered # None)
          => rendered = raw
    /\ (subsystem # None /\ subsystem[1] \in NamedVariants /\ rendered # None)
          => rendered[1] \in RecognizedTokens
    /\ (subsystem # None /\ subsystem[1] \in NamedVariants /\ reparsed # None)
          => reparsed = subsystem
    /\ (raw = Some("playlist") /\ subsystem # None) => subsystem = Some(Queue)
    /\ (subsystem = Some(Queue) /\ rendered # None) => rendered = Some("playlist")

\* "playlist" was classified, rendered and classified again.
C4_Witness ==
    /\ raw = Some("playlist")
    /\ subsystem = Some(Queue)
    /\ rendered = Some("playlist")
    /\ reparsed = Some(Queue)

\* C5: from_raw_string is total and exact: any string that is not exactly a
\* recognized token is classified as Other holding that very string, and the
\* value renders back to it.
C5_UnrecognizedIsOther ==
    /\ (raw # None /\ raw[1] \notin RecognizedTokens /\ subsystem # None)
          => subsystem = Some(Other(raw[1]))
    /\ (raw # None /\ raw[1] \notin RecognizedTokens /\ rendered # None)
          => rendered = raw
    /\ (raw # None /\ subsystem = None) => ENABLED Classify

\* A token in another case, one with surrounding whitespace, a superstring of
\* a token, or the empty string was classified and rendered.
C5_Witness ==
    /\ raw # None
    /\ \/ raw[1] = "Player"
       \/ raw[1] = " player"
       \/ raw[1] = ""
       \/ /\ raw[1] \notin RecognizedTokens
          /\ \E t \in RecognizedTokens : Contains(raw[1], t)
    /\ subsystem = Some(Other(raw[1]))
    /\ rendered = raw

\* ---------------------------------------------------------------------------
\* Properties of StateChangeError (checked under SpecError)
\* ---------------------------------------------------------------------------
\* C6: a converted transport/protocol failure e is Protocol(e) and its source
\* is e; a converted error frame r is ErrorMessage(r) and has no source; there
\* is no other kind.
C6_ClassifiedByOrigin ==
    /\ err # None => err[1].variant \in {"Protocol", "ErrorMessage"}
    /\ (err # None /\ origin[1] \in ProtocolErrors)
          => /\ err[1].variant = "Protocol"
             /\ err[1].inner = origin[1]
             /\ cause # None => cause[1] = Some(origin[1])
    /\ (err # None /\ origin[1] \in ErrorFrames)
          => /\ err[1].variant = "ErrorMessage"
             /\ err[1].inner = origin[1]
             /\ cause # None => cause[1] = None

\* An error frame was converted and asked for its source.
C6_Witness ==
    /\ origin[1] \in ErrorFrames
    /\ err = Some([variant |-> "ErrorMessage", inner |-> origin[1]])
    /\ cause = Some(None)

\* C7: Display of a Protocol error is the literal "protocol error" whatever
\* the cause; Display of an ErrorMessage is
\* "message contained an error frame [code c]: m" with c the code in decimal
\* and m the message, so the output contains both.
C7_Display ==
    shown # None =>
        IF origin[1] \in ProtocolErrors
        THEN shown[1] = "protocol error"
        ELSE /\ shown[1] = "message contained an error frame [code "
                            \o ToString(origin[1].code) \o "]: "
                            \o origin[1].message
             /\ Contains(shown[1], ToString(origin[1].code))
             /\ Contains(shown[1], origin[1].message)

\* The frame with code 5 and message "bad command" was formatted.
C7_Witness ==
    /\ origin[1] \in ErrorFrames
    /\ origin[1].code = 5
    /\ origin[1].message = "bad command"
    /\ shown = Some("message contained an error frame [code 5]: bad command")

\* ---------------------------------------------------------------------------
\* Properties of StateChanges (checked under Spec, C10 under FairSpec)
\* ---------------------------------------------------------------------------
IsPrefix(a, b) == Len(a) <= Len(b) /\ SubSeq(b, 1, Len(a)) = a

IsElement(p) == p.poll = "Ready" /\ p.item # None

\* C1: what poll_next has yielded so far is a prefix of what the producer has
\* enqueued so far, and the rest of it is exactly what the channel still
\* holds: nothing is reordered, duplicated, altered, dropped or coalesced.
C1_YieldedPrefixOfSent ==
    /\ IsPrefix(yielded, sent)
    /\ sent = yielded \o queue

\* The same subsystem was pushed twice in a row and yielded twice.
C1_Witness ==
    \E i \in 1..(Len(yielded) - 1) :
        /\ yielded[i].tag = "Ok"
        /\ yielded[i + 1] = yielded[i]
        /\ sent[i] = yielded[i]
        /\ sent[i + 1] = yielded[i]

C3_ErrorDoesNotTerminate ==
    [][/\ (poll_next /\ IsElement(lastPoll') /\ lastPoll'.item[1].tag = "Err")
            => /\ queue # <<>>
               /\ lastPoll'.item[1] = Head(queue)
               /\ queue' = Tail(queue)
               /\ txOpen' = txOpen
               /\ ends' = ends
       /\ (poll_next /\ lastPoll' = Ready(None))
            => (~txOpen /\ yielded' = sent')
       /\ (\E i \in 1..Len(yielded') : yielded'[i].tag = "Err")
            => sent' = yielded' \o queue'
       /\ (ends' > 0 /\ Len(sent') = 3 /\ sent'[1] = Ok(Player)
              /\ sent'[2].tag = "Err" /\ sent'[3] = Ok(Mixer))
            => yielded' = <<Ok(Player), sent'[2], Ok(Mixer)>>]_vars

\* Ok(Player), Err(Protocol(..)), Ok(Mixer) were yielded, then the end.
C3_Witness ==
    /\ ends > 0
    /\ Len(yielded) = 3
    /\ yielded[1] = Ok(Player)
    /\ yielded[2].tag = "Err"
    /\ yielded[2].val.variant = "Protocol"
    /\ yielded[3] = Ok(Mixer)
    /\ lastPoll = Ready(None)

\* C8: poll_next yields None only when the producer has closed and every
\* element enqueued has been yielded; on an open, empty channel it returns
\* Pending and parks the task; and whatever is buffered when the producer
\* closes is yielded before the end.
C8_EndOnlyWhenClosedAndDrained ==
    [][/\ (poll_next /\ lastPoll' = Ready(None))
            => (~txOpen /\ queue = <<>> /\ yielded = sent)
       /\ (poll_next /\ txOpen /\ queue = <<>>)
            => (lastPoll' = Pending /\ ends' = ends /\ yielded' = yielded)
       /\ (poll_next /\ budget /\ queue # <<>>)
            => (lastPoll' = Ready(Some(Head(queue))) /\ ends' = ends)
       /\ ends' > 0 => (~txOpen' /\ Len(yielded') = Len(sent')
                          /\ Len(yielded') >= pendingAtClose')]_vars

\* The producer closed with two elements buffered, and the end was yielded.
C8_Witness ==
    /\ ends > 0
    /\ pendingAtClose >= 2
    /\ Len(yielded) >= 2

\* C9: a poll_next that returns no element, and a wait that is abandoned,
\* leave the channel's queue, the sender's state and both histories as they
\* were; and when such a poll left an element at the head of the queue, that
\* element is what the next poll that returns an element yields.
C9_NoElementNoEffect ==
    [][/\ ((poll_next /\ ~IsElement(lastPoll')) \/ Abandon)
            => /\ queue' = queue
               /\ txOpen' = txOpen
               /\ sent' = sent
               /\ yielded' = yielded
       /\ (poll_next /\ owed # None /\ lastPoll'.poll = "Ready")
            => lastPoll'.item = owed
       /\ (owed # None) => (queue # <<>> /\ Head(queue) = owed[1])]_vars

\* A poll returned Pending although an element was queued; the element is
\* still at the head of the queue.
C9_Witness ==
    /\ lastPoll = Pending
    /\ owed # None
    /\ queue # <<>>
    /\ Head(queue) = owed[1]
    /\ sent = yielded \o queue

\* C10: no wakeup is lost.  A suspended task has its waker registered on an
\* open, empty channel; with a consumer that keeps polling, every enqueued
\* element is eventually yielded and closure eventually yields the end.
C10_NoLostWakeup ==
    /\ [](consumer = "suspended" => (rxWaker /\ txOpen /\ queue = <<>>))
    /\ \A i \in 1..MaxPush : (Len(sent) >= i) ~> (Len(yielded) >= i)
    /\ (~txOpen) ~> (ends > 0)

\* The suspended task was resumed by the channel with an element waiting.
C10_Witness ==
    /\ consumer = "woken"
    /\ lastPoll = Pending
    /\ queue # <<>>
    /\ txOpen

====
